---- MODULE Spec2Model ----
(***************************************************************************)
(* Model of client.py, a TCP port mapper.  main() reads the remote address  *)
(* and the mapping entries from standard input and starts one listener     *)
(* thread per mapping (start_forwarder); each accepted connection is       *)
(* dialed to the remote server and handed to two pipe() threads, one per   *)
(* direction.                                                              *)
(*                                                                         *)
(* Spec starts where the input has been read (line 93) and runs listeners  *)
(* and pipes; FairSpec adds the scheduling of the threads; MainSpec starts *)
(* at the first prompt and runs the input loop and the start of the        *)
(* listeners on a host where no client connects.                           *)
(*                                                                         *)
(* Socket objects are named by the accept() or create_connection() call    *)
(* that made them.  The peers at the far end are the environment: what     *)
(* they send, and when they close or reset, shows as the result of the     *)
(* recv and sendall calls, and `peer` records what the program has seen    *)
(* of them so that later results agree with earlier ones.                  *)
(*                                                                         *)
(* Outside the model: sendall blocking on a full send buffer (it returns   *)
(* or raises in one step), Thread.start() raising under thread             *)
(* exhaustion, log() raising, and a failure of the close() of line 45 on   *)
(* a socket that was just accepted and never shared.                       *)
(***************************************************************************)
EXTENDS Integers, Sequences, FiniteSets, TLC

\* ---------------------------------------------------------------- bounds
NumMappings == 2    \* entries of the mappings list main() iterates over
MaxLines == 3       \* lines typed at the mapping prompt
MaxInputs == 4      \* sockets that accept() and create_connection() return, plus
                    \* bytes, closes and resets received from the peers, in total

\* ------------------------------------------------------ program constants
BUFFER_SIZE == 65535
ConnectTimeout == 10

Mappings == 1..NumMappings
NoSock == <<>>

VARIABLES
    mainpc,       \* main(): "ask_ip" and "ask_entry" (the two prompts), "spawn"
                  \* (for loop), "idle" (keep-alive loop), "exit"
    remote_ip,    \* main's remote_ip, as a sequence of characters
    mappings,     \* main's list of (local_ip, local_port, remote_ip, remote_port)
    stdin,        \* lines read at the mapping prompt so far
    said,         \* the line main printed on its way out, if any
    nstart,       \* start_forwarder threads started for each mapping
    nbind,        \* calls of listener.bind() by each start_forwarder
    logged,       \* calls of log() by each start_forwarder, by message
    lpc,          \* start_forwarder thread of each mapping
    bound,        \* listener socket of the mapping is bound and listening
    naccepted,    \* connections the listener socket of the mapping has accepted
    client_sock,  \* local variable client_sock of each start_forwarder
    remote_sock,  \* local variable remote_sock of each start_forwarder
    sock,         \* socket objects created so far: "open" or "closed"
    timeout,      \* socket timeout in seconds, 0 for None (blocking)
    peer,         \* far end of each connection as the program has seen it:
                  \* "open", "fin" (closed its end), "rst" (reset)
    rcvd,         \* bytes recv() has returned from the socket so far
    delivered,    \* bytes sendall() has written to the socket so far
    pairs,        \* (client_sock, remote_sock) pairs of successful dials
    threads,      \* pipe() threads, named by their arguments (src, dst)
    nevents       \* bytes, closes and resets received from the peers so far

vars == <<mainpc, remote_ip, mappings, stdin, said, nstart, nbind, logged, lpc, bound,
          naccepted, client_sock, remote_sock, sock, timeout, peer, rcvd, delivered,
          pairs, threads, nevents>>

mvars == <<remote_ip, mappings, stdin, said>>
cvars == <<nstart, nbind, logged>>

lvars == <<lpc, bound, naccepted, client_sock, remote_sock>>
svars == <<sock, timeout>>
evars == <<peer, nevents>>
dvars == <<rcvd, delivered>>

\* ---------------------------------------------------------------- helpers
IsPrefix(s, t) == Len(s) <= Len(t) /\ SubSeq(t, 1, Len(s)) = s

\* Socket objects are named by where they were made: the i-th socket returned
\* by the accept() of mapping m, and the socket dialed for it.
AcceptedSock(m, i) == <<m, i, "client">>
DialedSock(m, i) == <<m, i, "remote">>

Socks == DOMAIN sock

Threads == DOMAIN threads

Running == mainpc # "exit"

\* Listeners inside create_connection, each about to receive one more socket
Dialing == Cardinality({m \in Mappings : lpc[m] = "dial"})

\* Inputs taken so far, counting the sockets the pending dials may return
Used == Cardinality(Socks) + Dialing + nevents

\* ------------------------------------------------------ text of the input
\* A line of input is a sequence of characters.  Whitespace is the blank.
IsSpace(c) == c = " "

DigitChars == <<"0", "1", "2", "3", "4", "5", "6", "7", "8", "9">>

IsDigit(c) == \E i \in 1..Len(DigitChars) : DigitChars[i] = c

DigitVal(c) == (CHOOSE i \in 1..Len(DigitChars) : DigitChars[i] = c) - 1

RECURSIVE LStrip(_)
LStrip(s) == IF s # <<>> /\ IsSpace(Head(s)) THEN LStrip(Tail(s)) ELSE s

RECURSIVE RStrip(_)
RStrip(s) ==
    IF s # <<>> /\ IsSpace(s[Len(s)]) THEN RStrip(SubSeq(s, 1, Len(s) - 1)) ELSE s

\* str.strip()
Strip(s) == RStrip(LStrip(s))

\* Length of the run of non-blank characters s starts with
RECURSIVE WordLen(_)
WordLen(s) == IF s = <<>> \/ IsSpace(Head(s)) THEN 0 ELSE 1 + WordLen(Tail(s))

\* str.split(): the maximal runs of non-blank characters, in order
RECURSIVE Split(_)
Split(s) ==
    IF s = <<>> THEN <<>>
    ELSE IF IsSpace(Head(s)) THEN Split(Tail(s))
    ELSE <<SubSeq(s, 1, WordLen(s))>> \o Split(SubSeq(s, WordLen(s) + 1, Len(s)))

AllDigits(t) == t # <<>> /\ \A i \in 1..Len(t) : IsDigit(t[i])

IsSign(c) == c \in {"+", "-"}

\* int(t) returns rather than raising ValueError: an optional sign and then
\* decimal digits (the inputs below hold no underscore and no inner blank)
IntOk(t) == t # <<>> /\ IF IsSign(t[1]) THEN AllDigits(Tail(t)) ELSE AllDigits(t)

RECURSIVE Decimal(_)
Decimal(t) == IF t = <<>> THEN 0 ELSE 10 * Decimal(SubSeq(t, 1, Len(t) - 1)) + DigitVal(t[Len(t)])

\* The value Python int(t) returns when IntOk(t)
int(t) ==
    IF t[1] = "-" THEN 0 - Decimal(Tail(t))
    ELSE IF t[1] = "+" THEN Decimal(Tail(t))
    ELSE Decimal(t)

\* Lines typed at "Enter GLOBAL server IP: "
IpLines == { <<>>, <<" ">>, <<"r">>, <<" ", "r", " ">> }

\* Lines typed at "Enter mapping or press Enter to finish: "
EntryLines ==
    { <<>>,                                         \* Enter
      <<" ">>,                                      \* a blank line
      <<"h", " ", "1", " ", "2">>,                  \* h 1 2
      <<" ", "h", " ", " ", "2", " ", "1", " ">>,   \* h 2 1 with extra blanks
      <<"h", " ", "1", "0", " ", "-", "2">>,        \* h 10 -2
      <<"h", " ", "x", " ", "2">>,                  \* second token not a number
      <<"h", " ", "1", " ", "2", "x">>,             \* third token not a number
      <<"h", " ", "1">>,                            \* two tokens
      <<"h", " ", "1", " ", "2", " ", "3">> }       \* four tokens

\* The entry that configures mapping m in the runs that start after the input
MappingLine(m) == <<"h", " ", DigitChars[m + 1], " ", DigitChars[m + 1]>>

RequiredMsg == "Remote IP is required. Exiting."
NoMappingsMsg == "No mappings defined. Exiting."
StoppingMsg == "[+] Stopping."

ForwardingMsg == "[+] Forwarding"
IncomingMsg == "[+] Incoming connection"
FailedMsg == "[!] Failed connecting"
Messages == {ForwardingMsg, IncomingMsg, FailedMsg}

\* log(msg) called by the start_forwarder of mapping m
Log(m, msg) == [logged EXCEPT ![m][msg] = @ + 1]

\* ------------------------------------------------------------------- Init
\* What main() has not touched yet: no thread, no socket
Fresh0 ==
    /\ said = ""
    /\ nstart = [m \in Mappings |-> 0]
    /\ nbind = [m \in Mappings |-> 0]
    /\ logged = [m \in Mappings |-> [msg \in Messages |-> 0]]
    /\ lpc = [m \in Mappings |-> "unstarted"]
    /\ bound = [m \in Mappings |-> FALSE]
    /\ naccepted = [m \in Mappings |-> 0]
    /\ client_sock = [m \in Mappings |-> NoSock]
    /\ remote_sock = [m \in Mappings |-> NoSock]
    /\ sock = <<>>
    /\ timeout = <<>>
    /\ peer = <<>>
    /\ rcvd = <<>>
    /\ delivered = <<>>
    /\ pairs = {}
    /\ threads = <<>>
    /\ nevents = 0

\* main() at its first prompt
MainInit ==
    /\ mainpc = "ask_ip"
    /\ remote_ip = <<>>
    /\ mappings = <<>>
    /\ stdin = <<>>
    /\ Fresh0

\* main() at line 93, after the user entered r, one entry per mapping and Enter
Init ==
    /\ mainpc = "spawn"
    /\ remote_ip = <<"r">>
    /\ mappings = [m \in Mappings |-> <<(<<"h">>), m, (<<"r">>), m>>]
    /\ stdin = [m \in Mappings |-> MappingLine(m)] \o << <<>> >>
    /\ Fresh0

\* A new socket object h with the given timeout enters the state.
NewSock(h, tmo) ==
    /\ sock' = sock @@ (h :> "open")
    /\ timeout' = timeout @@ (h :> tmo)
    /\ peer' = peer @@ (h :> "open")
    /\ rcvd' = rcvd @@ (h :> <<>>)
    /\ delivered' = delivered @@ (h :> <<>>)

\* ----------------------------------------------------------------- main()
tvars == <<nstart, nbind, logged, lpc, bound, naccepted, client_sock, remote_sock,
           sock, timeout, peer, rcvd, delivered, pairs, threads, nevents>>

\* remote_ip = input(...).strip(); if not remote_ip: print(...); return
ReadRemoteIp(line) ==
    /\ mainpc = "ask_ip"
    /\ remote_ip' = Strip(line)
    /\ IF Strip(line) = <<>>
       THEN mainpc' = "exit" /\ said' = RequiredMsg
       ELSE mainpc' = "ask_entry" /\ said' = said
    /\ UNCHANGED <<mappings, stdin, tvars>>

\* A check that lets longer entries through
TokenCountOkAtLeast(parts) == Len(parts) >= 3

\* if len(parts) != 3: print("Format must be: ..."); continue
TokenCountOk(parts) == Len(parts) = 3

\* try: ... int(parts[1]) ... int(parts[2]) except ValueError: print(...); continue
PortsOk(parts) == IntOk(parts[2]) /\ IntOk(parts[3])

\* An input loop that goes on to start the forwards whatever it collected
AfterInputNoCheck(ms) == "spawn"

\* if not mappings: print("No mappings defined. Exiting."); return
AfterInput(ms) == IF ms = <<>> THEN "exit" ELSE "spawn"

\* One round of the while loop of lines 68-87 on the given line of input
ReadEntry(line) ==
    LET entry == Strip(line)
        parts == Split(entry)
    IN  /\ mainpc = "ask_entry"
        /\ Len(stdin) < MaxLines
        /\ stdin' = Append(stdin, line)
        /\ IF entry = <<>>
           THEN /\ mainpc' = AfterInput(mappings)
                /\ said' = IF AfterInput(mappings) = "exit" THEN NoMappingsMsg ELSE said
                /\ mappings' = mappings
           ELSE IF ~TokenCountOk(parts) \/ ~PortsOk(parts)
           THEN UNCHANGED <<mainpc, said, mappings>>
           ELSE /\ Len(mappings) < NumMappings
                /\ mappings' = Append(mappings,
                                      <<parts[1], int(parts[2]), remote_ip, int(parts[3])>>)
                /\ UNCHANGED <<mainpc, said>>
        /\ UNCHANGED <<remote_ip, tvars>>

\* input() raises EOFError (standard input is closed) or KeyboardInterrupt:
\* nothing catches it there, main ends with a traceback
InputAbort ==
    /\ mainpc \in {"ask_ip", "ask_entry"}
    /\ mainpc' = "exit"
    /\ UNCHANGED <<mvars, tvars>>

\* for ... in mappings: threading.Thread(target=start_forwarder, ...).start()
\* print("[+] All mappings active..."), then the keep-alive loop.
\* main shares no state with the threads it starts, so the loop is one step.
MainStart ==
    /\ mainpc = "spawn"
    /\ lpc' = [m \in Mappings |-> IF m <= Len(mappings) THEN "bind" ELSE lpc[m]]
    /\ nstart' = [m \in Mappings |-> IF m <= Len(mappings) THEN nstart[m] + 1 ELSE nstart[m]]
    /\ mainpc' = "idle"
    /\ UNCHANGED <<mvars, nbind, logged, bound, naccepted, client_sock, remote_sock, svars,
                   evars, dvars, pairs, threads>>

\* KeyboardInterrupt in the keep-alive loop: print("\n[+] Stopping."), main
\* returns, the daemon threads die with the process
Interrupt ==
    /\ mainpc = "idle"
    /\ mainpc' = "exit"
    /\ said' = StoppingMsg
    /\ UNCHANGED <<remote_ip, mappings, stdin, cvars, lvars, svars, evars, dvars, pairs,
                   threads>>

\* ------------------------------------------------------ start_forwarder()
\* listener.bind(...); listener.listen(50); log("[+] Forwarding ...")
BindOk(m) ==
    /\ Running
    /\ lpc[m] = "bind"
    /\ bound' = [bound EXCEPT ![m] = TRUE]
    /\ lpc' = [lpc EXCEPT ![m] = "accept"]
    /\ nbind' = [nbind EXCEPT ![m] = @ + 1]
    /\ logged' = Log(m, ForwardingMsg)
    /\ UNCHANGED <<mvars, nstart, mainpc, naccepted, client_sock, remote_sock, svars, evars, dvars,
                   pairs, threads>>

\* A bind failure that is fatal to the process (sys.exit from the handler)
BindFailExits(m) ==
    /\ Running
    /\ lpc[m] = "bind"
    /\ lpc' = [lpc EXCEPT ![m] = "dead"]
    /\ mainpc' = "exit"
    /\ nbind' = [nbind EXCEPT ![m] = @ + 1]
    /\ UNCHANGED <<mvars, nstart, logged, bound, naccepted, client_sock, remote_sock, svars, evars, dvars,
                   pairs, threads>>

\* listener.bind(...) raises OSError: nothing catches it, the thread ends
BindFail(m) ==
    /\ Running
    /\ lpc[m] = "bind"
    /\ lpc' = [lpc EXCEPT ![m] = "dead"]
    /\ nbind' = [nbind EXCEPT ![m] = @ + 1]
    /\ UNCHANGED <<mvars, nstart, logged, mainpc, bound, naccepted, client_sock, remote_sock, svars, evars,
                   dvars, pairs, threads>>

\* A listener that accepts again while its dial is in progress
AcceptOkWhileDialing(m) ==
    LET h == AcceptedSock(m, naccepted[m] + 1)
    IN  /\ Running
        /\ lpc[m] \in {"accept", "dial"}
        /\ Used + 2 <= MaxInputs
        /\ naccepted' = [naccepted EXCEPT ![m] = naccepted[m] + 1]
        /\ NewSock(h, 0)
        /\ client_sock' = [client_sock EXCEPT ![m] = h]
        /\ lpc' = [lpc EXCEPT ![m] = "dial"]
        /\ logged' = Log(m, IncomingMsg)
        /\ UNCHANGED <<mvars, nstart, nbind, mainpc, bound, remote_sock, nevents, pairs, threads>>

\* An accept that waits while any other listener is dialing
AcceptOkOneAtATime(m) ==
    LET h == AcceptedSock(m, naccepted[m] + 1)
    IN  /\ Running
        /\ lpc[m] = "accept"
        /\ \A o \in Mappings \ {m} : lpc[o] # "dial"
        /\ Used + 2 <= MaxInputs
        /\ naccepted' = [naccepted EXCEPT ![m] = naccepted[m] + 1]
        /\ NewSock(h, 0)
        /\ client_sock' = [client_sock EXCEPT ![m] = h]
        /\ lpc' = [lpc EXCEPT ![m] = "dial"]
        /\ logged' = Log(m, IncomingMsg)
        /\ UNCHANGED <<mvars, nstart, nbind, mainpc, bound, remote_sock, nevents, pairs, threads>>

\* client_sock, addr = listener.accept(); log("[+] Incoming connection ...")
\* An accepted socket is blocking (no timeout).
AcceptOk(m) ==
    LET h == AcceptedSock(m, naccepted[m] + 1)
    IN  /\ Running
        /\ lpc[m] = "accept"
        /\ Used + 2 <= MaxInputs
        /\ naccepted' = [naccepted EXCEPT ![m] = naccepted[m] + 1]
        /\ NewSock(h, 0)
        /\ client_sock' = [client_sock EXCEPT ![m] = h]
        /\ lpc' = [lpc EXCEPT ![m] = "dial"]
        /\ logged' = Log(m, IncomingMsg)
        /\ UNCHANGED <<mvars, nstart, nbind, mainpc, bound, remote_sock, nevents, pairs, threads>>

\* An accept failure that takes the process down with the thread
AcceptFailExits(m) ==
    /\ Running
    /\ lpc[m] = "accept"
    /\ lpc' = [lpc EXCEPT ![m] = "dead"]
    /\ mainpc' = "exit"
    /\ UNCHANGED <<mvars, cvars, bound, naccepted, client_sock, remote_sock, svars, evars,
                   dvars, pairs, threads>>

\* listener.accept() raises OSError: line 38 is outside any try, the thread ends
AcceptFail(m) ==
    /\ Running
    /\ lpc[m] = "accept"
    /\ lpc' = [lpc EXCEPT ![m] = "dead"]
    /\ UNCHANGED <<mvars, cvars, mainpc, bound, naccepted, client_sock, remote_sock, svars, evars,
                   dvars, pairs, threads>>

\* remote_sock = socket.create_connection((remote_ip, remote_port), timeout=10)
\* The returned socket keeps the 10 second timeout for its later recv calls.
DialOk(m) ==
    LET h == DialedSock(m, naccepted[m])
    IN  /\ Running
        /\ lpc[m] = "dial"
        /\ NewSock(h, ConnectTimeout)
        /\ remote_sock' = [remote_sock EXCEPT ![m] = h]
        /\ pairs' = pairs \cup {<<client_sock[m], h>>}
        /\ lpc' = [lpc EXCEPT ![m] = "spawn1"]
        /\ UNCHANGED <<mvars, cvars, mainpc, bound, naccepted, client_sock, nevents, threads>>

\* A dial failure handler that forgets client_sock.close()
DialFailNoClose(m) ==
    /\ Running
    /\ lpc[m] = "dial"
    /\ lpc' = [lpc EXCEPT ![m] = "accept"]
    /\ logged' = Log(m, FailedMsg)
    /\ UNCHANGED <<mvars, nstart, nbind, mainpc, bound, naccepted, client_sock, remote_sock, svars, evars,
                   dvars, pairs, threads>>

\* A dial failure handler without the continue: the thread returns
DialFailReturns(m) ==
    /\ Running
    /\ lpc[m] = "dial"
    /\ sock' = [sock EXCEPT ![client_sock[m]] = "closed"]
    /\ lpc' = [lpc EXCEPT ![m] = "dead"]
    /\ logged' = Log(m, FailedMsg)
    /\ UNCHANGED <<mvars, nstart, nbind, mainpc, bound, naccepted, client_sock, remote_sock, timeout,
                   evars, dvars, pairs, threads>>

\* except Exception: log("[!] Failed connecting ..."); client_sock.close(); continue
DialFail(m) ==
    /\ Running
    /\ lpc[m] = "dial"
    /\ sock' = [sock EXCEPT ![client_sock[m]] = "closed"]
    /\ lpc' = [lpc EXCEPT ![m] = "accept"]
    /\ logged' = Log(m, FailedMsg)
    /\ UNCHANGED <<mvars, nstart, nbind, mainpc, bound, naccepted, client_sock, remote_sock, timeout,
                   evars, dvars, pairs, threads>>

\* A freshly started pipe(src, dst) thread, about to call src.recv
StartPipe(src, dst) == threads @@ (<<src, dst>> :> [pc |-> "recv", data |-> <<>>])

\* threading.Thread(target=pipe, args=(client_sock, remote_sock), ...).start()
SpawnFirst(m) ==
    /\ Running
    /\ lpc[m] = "spawn1"
    /\ threads' = StartPipe(client_sock[m], remote_sock[m])
    /\ lpc' = [lpc EXCEPT ![m] = "spawn2"]
    /\ UNCHANGED <<mvars, cvars, mainpc, bound, naccepted, client_sock, remote_sock, svars, evars,
                   dvars, pairs>>

\* A listener that runs the second pipe itself instead of in a thread: it
\* is inside pipe() ("relay") and does not come back to accept
SpawnSecondInline(m) ==
    /\ Running
    /\ lpc[m] = "spawn2"
    /\ threads' = StartPipe(remote_sock[m], client_sock[m])
    /\ lpc' = [lpc EXCEPT ![m] = "relay"]
    /\ UNCHANGED <<mvars, cvars, mainpc, bound, naccepted, client_sock, remote_sock, svars, evars,
                   dvars, pairs>>

\* A second thread started with the arguments of the first
SpawnSecondSameArgs(m) ==
    /\ Running
    /\ lpc[m] = "spawn2"
    /\ threads' = StartPipe(client_sock[m], remote_sock[m])
    /\ lpc' = [lpc EXCEPT ![m] = "accept"]
    /\ UNCHANGED <<mvars, cvars, mainpc, bound, naccepted, client_sock, remote_sock, svars, evars,
                   dvars, pairs>>

\* threading.Thread(target=pipe, args=(remote_sock, client_sock), ...).start()
\* and back to the top of the while loop
SpawnSecond(m) ==
    /\ Running
    /\ lpc[m] = "spawn2"
    /\ threads' = StartPipe(remote_sock[m], client_sock[m])
    /\ lpc' = [lpc EXCEPT ![m] = "accept"]
    /\ UNCHANGED <<mvars, cvars, mainpc, bound, naccepted, client_sock, remote_sock, svars, evars,
                   dvars, pairs>>

\* ----------------------------------------------------------------- pipe()
\* A loop that swallows the terminal event and goes round again
LeaveRetry(t) == [threads EXCEPT ![t] = [pc |-> "recv", data |-> <<>>]]

\* The thread leaves the while loop (break, or an exception swallowed by the
\* bare except) and enters the finally block.
Leave(t) == [threads EXCEPT ![t] = [pc |-> "close_src", data |-> <<>>]]

\* The peer changes state, which uses up one of the peer events.
PeerBecomes(h, st) ==
    /\ peer' = [peer EXCEPT ![h] = st]
    /\ nevents' = IF peer[h] = st THEN nevents ELSE nevents + 1

\* pipe() never looks at the payload, so the bytes are labelled with the
\* connection they come in by and their position in its stream: all differ.
\* The next k bytes of the stream the peer of h sends:
Fresh(h, k) == [j \in 1..k |-> <<h, Len(rcvd[h]) + j>>]

\* src.recv(BUFFER_SIZE) is called: a closed socket object raises at once,
\* an open one enters the system call.
RecvEnter(t) ==
    /\ Running
    /\ threads[t].pc = "recv"
    /\ threads' = IF sock[t[1]] = "open"
                  THEN [threads EXCEPT ![t].pc = "recv_wait"]
                  ELSE Leave(t)
    /\ UNCHANGED <<mvars, cvars, mainpc, lvars, svars, evars, dvars, pairs>>

\* What the loop does with the bytes recv returned: "if not data: break",
\* else on to dst.sendall(data)
Received(t, d) ==
    IF d = <<>> THEN Leave(t) ELSE [threads EXCEPT ![t] = [pc |-> "send", data |-> d]]

\* data = src.recv(BUFFER_SIZE) returns the k bytes the peer has sent
\* (at most BUFFER_SIZE), or no byte when the peer has closed its end.
RecvReturn(t, k) ==
    LET h == t[1]
        d == Fresh(h, k)
    IN  /\ Running
        /\ threads[t].pc = "recv_wait"
        /\ peer[h] = "open"
        /\ k <= BUFFER_SIZE
        /\ IF k = 0
           THEN Used < MaxInputs /\ PeerBecomes(h, "fin")
           ELSE /\ Used + k <= MaxInputs
                /\ nevents' = nevents + k
                /\ peer' = peer
        /\ rcvd' = [rcvd EXCEPT ![h] = rcvd[h] \o d]
        /\ threads' = Received(t, d)
        /\ UNCHANGED <<mvars, cvars, mainpc, lvars, svars, delivered, pairs>>

\* src.recv raises ConnectionResetError: the peer has reset the connection
RecvError(t) ==
    /\ Running
    /\ threads[t].pc = "recv_wait"
    /\ peer[t[1]] # "fin"
    /\ peer[t[1]] = "open" => Used < MaxInputs
    /\ PeerBecomes(t[1], "rst")
    /\ threads' = Leave(t)
    /\ UNCHANGED <<mvars, cvars, mainpc, lvars, svars, dvars, pairs>>

\* src.recv raises socket.timeout: only a socket made by create_connection
\* with timeout=10 has a timeout
RecvTimeout(t) ==
    /\ Running
    /\ threads[t].pc = "recv_wait"
    /\ timeout[t[1]] > 0
    /\ threads' = Leave(t)
    /\ UNCHANGED <<mvars, cvars, mainpc, lvars, svars, evars, dvars, pairs>>

\* The other thread closed src while this one was inside recv: whether the
\* blocked call is woken with an error depends on the platform (Linux keeps
\* it blocked until the peer acts), so the step may or may not happen.
RecvWake(t) ==
    /\ Running
    /\ threads[t].pc = "recv_wait"
    /\ sock[t[1]] = "closed"
    /\ threads' = Leave(t)
    /\ UNCHANGED <<mvars, cvars, mainpc, lvars, svars, evars, dvars, pairs>>

\* What sendall writes to dst: the first k bytes of data, as they are
Written(d, k) == SubSeq(d, 1, k)

\* A pipe that echoes: src.sendall(data) in place of dst.sendall(data)
SendallToSrc(t, k) ==
    LET h == t[1]
        d == threads[t].data
    IN  /\ Running
        /\ threads[t].pc = "send"
        /\ k = Len(d)
        /\ delivered' = [delivered EXCEPT ![h] = delivered[h] \o Written(d, k)]
        /\ threads' = [threads EXCEPT ![t] = [pc |-> "recv", data |-> <<>>]]
        /\ UNCHANGED <<mvars, cvars, mainpc, lvars, svars, evars, rcvd, pairs>>

\* dst.sendall(data) writes all of data (k = Len(data)) and the loop goes on,
\* or raises after writing k bytes: at once on a closed socket object (k = 0),
\* part-way on a connection the peer has reset or when the timeout of dst
\* expires.
Sendall(t, k) ==
    LET h == t[2]
        d == threads[t].data
    IN  /\ Running
        /\ threads[t].pc = "send"
        /\ k <= Len(d)
        /\ \/ /\ sock[h] # "open"
              /\ k = 0
              /\ UNCHANGED <<peer, nevents>>
           \/ /\ sock[h] = "open"
              /\ k < Len(d)
              /\ peer[h] = "rst" \/ Used < MaxInputs
              /\ PeerBecomes(h, "rst")
           \/ /\ sock[h] = "open"
              /\ k < Len(d)
              /\ timeout[h] > 0
              /\ UNCHANGED <<peer, nevents>>
           \/ /\ sock[h] = "open"
              /\ k = Len(d)
              /\ peer[h] # "rst"
              /\ UNCHANGED <<peer, nevents>>
        /\ delivered' = [delivered EXCEPT ![h] = delivered[h] \o Written(d, k)]
        /\ threads' = IF k = Len(d)
                      THEN [threads EXCEPT ![t] = [pc |-> "recv", data |-> <<>>]]
                      ELSE Leave(t)
        /\ UNCHANGED <<mvars, cvars, mainpc, lvars, svars, rcvd, pairs>>

\* A finally block without the inner try: an error of src.close() leaves pipe
AfterCloseSrcUncaught(raises) == IF raises THEN "raised" ELSE "close_dst"

\* A pipe whose while loop encloses the try: after the cleanup it reads again
AfterCloseDstRetry(raises) == "recv"

\* Where the finally block goes after src.close(): "except: pass" swallows an
\* error, so dst.close() is attempted either way.
AfterCloseSrc(raises) == "close_dst"

\* Where the thread goes after dst.close(): pipe returns either way.
AfterCloseDst(raises) == "done"

\* A cleanup that closes every socket of the process
ClosedAll(h) == [x \in Socks |-> "closed"]

\* socket.close(): the socket object is released even when the call raises
Closed(h) == [sock EXCEPT ![h] = "closed"]

\* A pipe that leaves src open for the other direction (half-close)
CloseSrcForgotten(t, raises) ==
    /\ Running
    /\ threads[t].pc = "close_src"
    /\ threads' = [threads EXCEPT ![t].pc = "close_dst"]
    /\ UNCHANGED <<mvars, cvars, mainpc, lvars, svars, evars, dvars, pairs>>

\* try: src.close() / except: pass
CloseSrc(t, raises) ==
    /\ Running
    /\ threads[t].pc = "close_src"
    /\ sock' = Closed(t[1])
    /\ threads' = [threads EXCEPT ![t].pc = AfterCloseSrc(raises)]
    /\ UNCHANGED <<mvars, cvars, mainpc, lvars, timeout, evars, dvars, pairs>>

\* A pipe that forgets dst: the finally block ends without dst.close()
CloseDstForgotten(t, raises) ==
    /\ Running
    /\ threads[t].pc = "close_dst"
    /\ threads' = [threads EXCEPT ![t].pc = "done"]
    /\ UNCHANGED <<mvars, cvars, mainpc, lvars, svars, evars, dvars, pairs>>

\* try: dst.close() / except: pass
CloseDst(t, raises) ==
    /\ Running
    /\ threads[t].pc = "close_dst"
    /\ sock' = Closed(t[2])
    /\ threads' = [threads EXCEPT ![t].pc = AfterCloseDst(raises)]
    /\ UNCHANGED <<mvars, cvars, mainpc, lvars, timeout, evars, dvars, pairs>>

\* ------------------------------------------------------------------- Next
Next ==
    \/ MainStart
    \/ Interrupt
    \/ \E m \in Mappings : BindOk(m)
    \/ \E m \in Mappings : BindFail(m)
    \/ \E m \in Mappings : AcceptOk(m)
    \/ \E m \in Mappings : AcceptFail(m)
    \/ \E m \in Mappings : DialOk(m)
    \/ \E m \in Mappings : DialFail(m)
    \/ \E m \in Mappings : SpawnFirst(m)
    \/ \E m \in Mappings : SpawnSecond(m)
    \/ \E t \in Threads : RecvEnter(t)
    \/ \E t \in Threads : \E k \in 0..MaxInputs : RecvReturn(t, k)
    \/ \E t \in Threads : RecvError(t)
    \/ \E t \in Threads : RecvTimeout(t)
    \/ \E t \in Threads : RecvWake(t)
    \/ \E t \in Threads : \E k \in 0..MaxInputs : Sendall(t, k)
    \/ \E t \in Threads : \E raises \in BOOLEAN : CloseSrc(t, raises)
    \/ \E t \in Threads : \E raises \in BOOLEAN : CloseDst(t, raises)

Spec == Init /\ [][Next]_vars

\* main() from its first prompt, on a host where no client connects: the
\* prompts, the start of the forwards, and each listener up to its accept.
MainNext ==
    \/ \E line \in IpLines : ReadRemoteIp(line)
    \/ \E line \in EntryLines : ReadEntry(line)
    \/ InputAbort
    \/ MainStart
    \/ Interrupt
    \/ \E m \in Mappings : BindOk(m)
    \/ \E m \in Mappings : BindFail(m)
    \/ \E m \in Mappings : AcceptFail(m)

MainSpec == MainInit /\ [][MainNext]_vars

\* Threads are scheduled: a step of a running thread that does not wait for
\* the peer is eventually taken.  recv on a socket with a timeout returns by
\* itself; recv on a blocking socket returns only when the peer sends, closes
\* or resets, which nothing obliges it to do, and RecvWake is not a behaviour
\* of every platform.  No behaviour of the model takes infinitely many steps,
\* so fairness over the threads together is fairness for each of them.
PipeStep ==
    \E t \in Threads :
        \/ RecvEnter(t)
        \/ RecvTimeout(t)
        \/ \E k \in 0..MaxInputs : Sendall(t, k)
        \/ \E raises \in BOOLEAN : CloseSrc(t, raises)
        \/ \E raises \in BOOLEAN : CloseDst(t, raises)

\* create_connection returns or raises within its timeout, and starting a
\* thread does not block.
ListenerStep ==
    \E m \in Mappings : DialOk(m) \/ DialFail(m) \/ SpawnFirst(m) \/ SpawnSecond(m)

FairSpec == Spec /\ WF_vars(PipeStep) /\ WF_vars(ListenerStep)

\* ------------------------------------------------------------ relay state
\* Where the pipe(src, dst) thread is; "unstarted" before its Thread.start()
PipePc(src, dst) ==
    IF <<src, dst>> \in Threads THEN threads[<<src, dst>>].pc ELSE "unstarted"

\* The thread has met its terminal event (EOF or error) and left the loop
Ended(pc) == pc \in {"close_src", "close_dst", "done", "raised"}

\* The thread has terminated
Terminated(pc) == pc \in {"done", "raised"}

\* OPEN / CLOSING / CLOSED of the relay over the pair p = (a, b)
RelayState(p) ==
    IF Terminated(PipePc(p[1], p[2])) /\ Terminated(PipePc(p[2], p[1])) THEN "CLOSED"
    ELSE IF Ended(PipePc(p[1], p[2])) \/ Ended(PipePc(p[2], p[1])) THEN "CLOSING"
    ELSE "OPEN"

\* Every name a pair can have within the bounds
PairNames ==
    {<<AcceptedSock(m, i), DialedSock(m, i)>> : m \in Mappings, i \in 1..MaxInputs}

\* ------------------------------------------------------------------ claims

\* C1: paired closure.  For every connection pair (a, b), in every state in
\* which at least one of the copy tasks pipe(a, b), pipe(b, a) has terminated,
\* both sockets a and b are closed.
C1_PairedClosure ==
    \A p \in pairs :
        (Terminated(PipePc(p[1], p[2])) \/ Terminated(PipePc(p[2], p[1])))
            => sock[p[1]] = "closed" /\ sock[p[2]] = "closed"

\* C1 witness: one copy task of a pair has terminated while the other is still
\* inside recv, and both sockets are closed.
C1_Witness ==
    \E p \in pairs :
        /\ PipePc(p[2], p[1]) = "done"
        /\ PipePc(p[1], p[2]) = "recv_wait"
        /\ sock[p[1]] = "closed" /\ sock[p[2]] = "closed"

\* C2: relay liveness, as claimed.  Once the first copy task of a pair has
\* terminated, the other one terminates too: every relay that leaves OPEN
\* reaches CLOSED (unless the process exits first).
C2_RelayLiveness ==
    \A p \in PairNames :
        (p \in pairs /\ RelayState(p) = "CLOSING")
            ~> (RelayState(p) = "CLOSED" \/ ~Running)

\* C3: dial failure handling.  When the dial for an accepted connection fails,
\* the accepted socket is closed, no pair and no copy task is created for it,
\* and the listener is back at accept; the socket of a failed dial stays
\* closed and outside every pair and thread.
DialFailed(h) ==
    /\ h[3] = "client"
    /\ DialedSock(h[1], h[2]) \notin Socks
    /\ ~(lpc[h[1]] = "dial" /\ client_sock[h[1]] = h)

C3_DialFailure ==
    /\ [](\A h \in Socks : DialFailed(h) =>
            /\ sock[h] = "closed"
            /\ \A p \in pairs : h # p[1] /\ h # p[2]
            /\ \A t \in Threads : h # t[1] /\ h # t[2])
    /\ [][\A m \in Mappings :
            (lpc[m] = "dial" /\ lpc'[m] # "dial" /\ lpc'[m] # "spawn1") =>
                /\ lpc'[m] = "accept"
                /\ sock'[client_sock[m]] = "closed"
                /\ pairs' = pairs
                /\ threads' = threads]_vars

\* C3 witness: the first dial of a listener failed, its accepted socket is
\* closed, and the listener has accepted the next connection.
C3_Witness ==
    \E m \in Mappings :
        /\ AcceptedSock(m, 1) \in Socks
        /\ DialFailed(AcceptedSock(m, 1))
        /\ sock[AcceptedSock(m, 1)] = "closed"
        /\ AcceptedSock(m, 2) \in Socks

\* C4: accept failure handling, as claimed.  A failure of accept() never
\* terminates the listener: from accept it only stays at accept or goes on
\* to dial.
C4_AcceptFailureNotFatal ==
    [][\A m \in Mappings : lpc[m] = "accept" => lpc'[m] \in {"accept", "dial"}]_vars

\* C5: bind failure containment.  A mapping whose bind failed never accepts a
\* connection and never binds again; the failing step changes neither another
\* listener nor main; and whatever has happened to the others, a listener at
\* bind can bind and a listener at accept can accept.
BindFailed(m) == lpc[m] = "dead" /\ ~bound[m]

C5_BindFailureContained ==
    /\ [](\A m \in Mappings :
            /\ BindFailed(m) =>
                  naccepted[m] = 0 /\ \A h \in Socks : h[1] # m
            /\ (Running /\ lpc[m] = "bind") => ENABLED BindOk(m)
            /\ (Running /\ lpc[m] = "accept" /\ Used + 2 <= MaxInputs)
                  => ENABLED AcceptOk(m))
    /\ [][\A m \in Mappings :
            /\ BindFailed(m) => lpc'[m] = "dead" /\ ~bound'[m]
            /\ (lpc[m] = "bind" /\ lpc'[m] = "dead") =>
                  /\ mainpc' = mainpc
                  /\ \A m2 \in Mappings \ {m} : lpc'[m2] = lpc[m2]]_vars

\* C5 witness: the bind of one mapping failed, and another mapping has bound,
\* accepted a connection and started its relay, in a live process.
C5_Witness ==
    \E m, m2 \in Mappings :
        /\ BindFailed(m)
        /\ bound[m2]
        /\ <<AcceptedSock(m2, 1), DialedSock(m2, 1)>> \in pairs
        /\ <<DialedSock(m2, 1), AcceptedSock(m2, 1)>> \in Threads
        /\ Running

\* C6: order and content preservation.  For every pair and each direction,
\* the bytes written to the destination socket are a prefix of the bytes
\* received from the source socket.
C6_OrderPreserved ==
    \A p \in pairs :
        /\ IsPrefix(delivered[p[2]], rcvd[p[1]])
        /\ IsPrefix(delivered[p[1]], rcvd[p[2]])

\* C6 witness: two bytes received from the accepted socket have been written
\* to the dialed socket, in their order.
C6_Witness ==
    \E p \in pairs :
        /\ rcvd[p[1]] = <<<<p[1], 1>>, <<p[1], 2>>>>
        /\ delivered[p[2]] = rcvd[p[1]]

\* C7: the listener does not wait for relays.  A listener that has dialed
\* starts both threads and is back at accept whatever the copy tasks do: its
\* steps are enabled in every state of the relays of its mapping.
C7_ListenerNeverWaits ==
    /\ [](\A m \in Mappings : Running =>
            /\ lpc[m] \in {"unstarted", "bind", "accept", "dial", "spawn1", "spawn2", "dead"}
            /\ lpc[m] = "spawn1" => ENABLED SpawnFirst(m)
            /\ lpc[m] = "spawn2" => ENABLED SpawnSecond(m)
            /\ (lpc[m] = "accept" /\ Used + 2 <= MaxInputs) => ENABLED AcceptOk(m))
    /\ [][\A m \in Mappings :
            (lpc[m] = "spawn2" /\ lpc'[m] # "spawn2") => lpc'[m] = "accept"]_vars

\* C7 witness: a listener is back at accept with two relays of its mapping,
\* all four copy tasks started, both OPEN.
C7_Witness ==
    \E m \in Mappings :
        LET p == <<AcceptedSock(m, 1), DialedSock(m, 1)>>
            q == <<AcceptedSock(m, 2), DialedSock(m, 2)>>
        IN  /\ p \in pairs /\ q \in pairs
            /\ lpc[m] = "accept"
            /\ RelayState(p) = "OPEN" /\ RelayState(q) = "OPEN"
            /\ \A t \in {<<p[1], p[2]>>, <<p[2], p[1]>>, <<q[1], q[2]>>, <<q[2], q[1]>>} :
                   t \in Threads

\* C8: exactly one relay per successful dial.  Every pair is an accepted
\* socket with the socket dialed for it; once its listener has left the two
\* start() calls it has exactly the copy tasks pipe(a, b) and pipe(b, a), and
\* before that only those already started; every copy task runs over a pair;
\* no socket belongs to two pairs.
Spawning(p, at) ==
    \E m \in Mappings : lpc[m] = at /\ client_sock[m] = p[1] /\ remote_sock[m] = p[2]

C8_OneRelayPerDial ==
    /\ \A p \in pairs :
          /\ p[1][3] = "client" /\ p[2] = DialedSock(p[1][1], p[1][2])
          /\ <<p[1], p[2]>> \in Threads <=> ~Spawning(p, "spawn1")
          /\ <<p[2], p[1]>> \in Threads <=> ~(Spawning(p, "spawn1") \/ Spawning(p, "spawn2"))
    /\ \A t \in Threads : <<t[1], t[2]>> \in pairs \/ <<t[2], t[1]>> \in pairs
    /\ \A p, q \in pairs : p # q => {p[1], p[2]} \cap {q[1], q[2]} = {}
    /\ Cardinality(Threads) <= 2 * Cardinality(pairs)

\* C8 witness: two pairs, each with its two copy tasks.
C8_Witness ==
    /\ Cardinality(pairs) = 2
    /\ Cardinality(Threads) = 4

\* C9: the relay state machine is monotone.  In every step a relay stays in
\* its state or moves OPEN -> CLOSING or CLOSING -> CLOSED; a closed socket
\* stays closed; a terminated copy task does nothing more.
Rank(st) == CASE st = "OPEN" -> 0 [] st = "CLOSING" -> 1 [] st = "CLOSED" -> 2

C9_RelayMonotone ==
    [][/\ \A p \in pairs :
             /\ p \in pairs'
             /\ Rank(RelayState(p)) <= Rank(RelayState(p)')
             /\ Rank(RelayState(p)') <= Rank(RelayState(p)) + 1
       /\ \A h \in Socks : sock[h] = "closed" => sock'[h] = "closed"
       /\ \A t \in Threads :
             Terminated(threads[t].pc) => t \in Threads' /\ threads'[t] = threads[t]]_vars

\* C9 witness: a relay has gone through CLOSING to CLOSED.
C9_Witness ==
    \E p \in pairs : RelayState(p) = "CLOSED"

\* C10: close is idempotent and race-safe.  A close in the cleanup of a copy
\* task leaves the socket closed whether it was open or already closed, no
\* error leaves the task, and after the close of src, failed or not, the
\* task goes on to close dst and then returns.
C10_CloseIdempotent ==
    /\ [](\A t \in Threads : threads[t].pc # "raised")
    /\ [][\A t \in Threads :
            /\ (threads[t].pc = "close_src" /\ threads'[t] # threads[t]) =>
                  threads'[t].pc = "close_dst" /\ sock'[t[1]] = "closed"
            /\ (threads[t].pc = "close_dst" /\ threads'[t] # threads[t]) =>
                  threads'[t].pc = "done" /\ sock'[t[2]] = "closed"]_vars

\* C10 witness: both copy tasks of a pair are in their cleanup at once, one
\* about to close a socket the other has already closed.
C10_Witness ==
    \E p \in pairs :
        /\ PipePc(p[1], p[2]) = "close_dst"
        /\ PipePc(p[2], p[1]) = "close_dst"
        /\ sock[p[1]] = "closed" /\ sock[p[2]] = "closed"

\* ------------------------------------------------------------ C11
\* C11: when the input ends with an empty mapping list, main() is at its
\* exit: no start_forwarder thread was started, none called bind, and no
\* listener socket is bound.
C11_ZeroMappings ==
    (mainpc \notin {"ask_ip", "ask_entry"} /\ mappings = <<>>) =>
        /\ mainpc = "exit"
        /\ \A m \in Mappings :
              lpc[m] = "unstarted" /\ nstart[m] = 0 /\ nbind[m] = 0 /\ ~bound[m]

\* The user typed a remote address, an entry that was rejected, and Enter
C11_Witness ==
    /\ mainpc = "exit"
    /\ said = NoMappingsMsg
    /\ remote_ip # <<>>
    /\ mappings = <<>>
    /\ Len(stdin) = 2
    /\ Strip(stdin[1]) # <<>>

\* ------------------------------------------------------------ C12
\* A well-formed entry: three tokens, the second and third of them integers
WellFormed(line) ==
    LET p == Split(line)
    IN  Len(p) = 3 /\ IntOk(p[2]) /\ IntOk(p[3])

RuleOf(line, rip) ==
    LET p == Split(line)
    IN  <<p[1], int(p[2]), rip, int(p[3])>>

RECURSIVE RulesOf(_, _)
RulesOf(lines, rip) ==
    IF lines = <<>> THEN <<>>
    ELSE (IF WellFormed(Head(lines)) THEN <<RuleOf(Head(lines), rip)>> ELSE <<>>)
             \o RulesOf(Tail(lines), rip)

C12_Rejected(line) == Strip(line) # <<>> /\ ~WellFormed(line)

\* C12: the mapping list is always the rules of the well-formed entries typed
\* so far, in the order typed and with the shared remote address; reading a
\* well-formed entry appends exactly its rule, reading any other entry leaves
\* the list alone, and after a rejected entry main() is at the prompt again.
C12_InputValidation ==
    /\ [](mappings = RulesOf(stdin, remote_ip))
    /\ [][(mainpc = "ask_entry" /\ stdin' # stdin) =>
             LET line == stdin'[Len(stdin')]
             IN  /\ stdin' = Append(stdin, line)
                 /\ WellFormed(line) =>
                        mappings' = Append(mappings, RuleOf(line, remote_ip))
                 /\ ~WellFormed(line) => mappings' = mappings
                 /\ C12_Rejected(line) => mainpc' = "ask_entry"]_vars

\* Three lines typed, of which one was rejected, and main() is at the prompt
\* with the two different rules of the other two
C12_Witness ==
    /\ mainpc = "ask_entry"
    /\ Len(stdin) = 3
    /\ \E i \in 1..3 : C12_Rejected(stdin[i])
    /\ Len(mappings) = 2
    /\ mappings[1] # mappings[2]
    /\ mappings[1][3] = remote_ip /\ mappings[2][3] = remote_ip

\* ------------------------------------------------------------ C13
\* C13: once main() has started the forwards, each entry of the mapping
\* list has exactly one start_forwarder thread and no other index has one;
\* a start_forwarder calls bind once, when it leaves its first step, and
\* never again; and a listener waiting in accept can take a connection
\* whatever the other listeners are doing (dialing, starting threads,
\* accepting, or dead), as long as the run has inputs left.
C13_ListenersIndependent ==
    \A m \in Mappings :
        /\ nstart[m] = (IF mainpc # "spawn" /\ m <= Len(mappings) THEN 1 ELSE 0)
        /\ (lpc[m] # "unstarted") <=> (nstart[m] = 1)
        /\ nbind[m] = (IF lpc[m] \in {"unstarted", "bind"} THEN 0 ELSE 1)
        /\ (Running /\ lpc[m] = "accept" /\ Used + 2 <= MaxInputs)
               => ENABLED AcceptOk(m)

\* The first listener is inside create_connection, the listeners between the
\* first and the last (if any) are dead, and the last one, waiting in accept,
\* can take a connection
C13_Witness ==
    /\ \A m \in Mappings : nstart[m] = 1 /\ nbind[m] = 1
    /\ lpc[1] = "dial"
    /\ lpc[NumMappings] = "accept"
    /\ \A m \in Mappings \ {1, NumMappings} : lpc[m] = "dead"
    /\ ENABLED AcceptOk(NumMappings)

\* ------------------------------------------------------------ C14
\* C14: a step in which a pipe thread meets its EOF or error, or runs one of
\* its two closes, changes the state of no socket other than the src and dst
\* of that thread, moves no pipe thread of another pair, moves no listener,
\* unbinds no listener socket, and leaves main() where it is.
C14_RelayFailureContained ==
    [][\A t \in Threads :
          (threads'[t] # threads[t] /\ Ended(threads'[t].pc)) =>
              /\ \A h \in Socks \ {t[1], t[2]} : sock'[h] = sock[h]
              /\ \A u \in Threads \ {t, <<t[2], t[1]>>} : threads'[u] = threads[u]
              /\ lpc' = lpc
              /\ bound' = bound
              /\ mainpc' = mainpc]_vars

\* The relay of one pair has failed and closed both its sockets while the
\* relay of another pair goes on with both sockets open, the listener of the
\* failed pair is back in accept, and the process runs
C14_Witness ==
    \E p \in pairs : \E q \in pairs \ {p} :
        /\ Terminated(PipePc(p[2], p[1]))
        /\ sock[p[1]] = "closed" /\ sock[p[2]] = "closed"
        /\ sock[q[1]] = "open" /\ sock[q[2]] = "open"
        /\ PipePc(q[1], q[2]) = "recv_wait" /\ PipePc(q[2], q[1]) = "recv_wait"
        /\ lpc[p[1][1]] = "accept" /\ bound[p[1][1]]
        /\ Running

\* ------------------------------------------------------------ C15
\* Calls of log() by the start_forwarder of mapping m so far
LogEvents(m) == logged[m][ForwardingMsg] + logged[m][IncomingMsg] + logged[m][FailedMsg]

\* Dials of mapping m that failed so far
DialFailures(m) == Cardinality({h \in Socks : h[1] = m /\ DialFailed(h)})

\* The accept of mapping m failed
AcceptFailed(m) == lpc[m] = "dead" /\ bound[m]

\* C15: the log events of a mapping are one for its start (after a successful
\* bind), one for each accepted connection, one for each dial failure, one for
\* a bind failure and one for an accept failure, and no others.
C15_EveryFailureLogged ==
    \A m \in Mappings :
        /\ logged[m][ForwardingMsg] = (IF bound[m] THEN 1 ELSE 0)
        /\ logged[m][IncomingMsg] = naccepted[m]
        /\ LogEvents(m) = logged[m][ForwardingMsg] + logged[m][IncomingMsg]
                          + DialFailures(m)
                          + (IF BindFailed(m) THEN 1 ELSE 0)
                          + (IF AcceptFailed(m) THEN 1 ELSE 0)

\* ------------------------------------------------------------ C16
\* C16: from the start of the forwards on, main() is in its keep-alive loop
\* or has left it with the stop message; the step that takes it out of the
\* loop is the interrupt alone, which prints the stop message, exits, and
\* coincides with no step of a listener or of a pipe thread.  Hence no bind,
\* accept, dial or relay failure ends the process.
C16_ProcessSurvives ==
    /\ [](mainpc \in {"spawn", "idle"} \/ (mainpc = "exit" /\ said = StoppingMsg))
    /\ [][(mainpc = "idle" /\ (mainpc' # "idle" \/ said' # said)) =>
             /\ mainpc' = "exit"
             /\ said' = StoppingMsg
             /\ UNCHANGED <<lvars, svars, evars, dvars, pairs, threads>>]_vars

\* Every listener is dead, the first by a bind failure and the last by an
\* accept failure after one failed dial and one relay that has closed its
\* sockets, and main() is still in its keep-alive loop
C16_Witness ==
    /\ mainpc = "idle"
    /\ \A m \in Mappings : lpc[m] = "dead"
    /\ BindFailed(1)
    /\ AcceptFailed(NumMappings)
    /\ DialFailures(NumMappings) = 1
    /\ \E p \in pairs : sock[p[1]] = "closed" /\ sock[p[2]] = "closed"

\* ------------------------------------------------------------ C17
\* What is left for a thread that has left its loop: its two closes, in order
C17_After(pc) ==
    CASE pc = "close_src" -> {"close_src", "close_dst"}
      [] pc = "close_dst" -> {"close_dst", "done"}
      [] OTHER -> {pc}

\* C17: a pipe thread whose recv returned no byte (EOF) or raised, or whose
\* sendall raised, has left its loop; from then on recv returns it nothing
\* more from src, it writes nothing more to dst, it holds no data, and its
\* only steps are src.close() and then dst.close().
C17_NeverRetries ==
    /\ [](\A t \in Threads : peer[t[1]] = "fin" => Ended(threads[t].pc))
    /\ [][\A t \in Threads :
             /\ (/\ threads[t].pc = "recv_wait"
                 /\ threads'[t] # threads[t]
                 /\ rcvd'[t[1]] = rcvd[t[1]]) => Ended(threads'[t].pc)
             /\ (/\ threads[t].pc = "send"
                 /\ threads'[t] # threads[t]
                 /\ delivered'[t[2]] # delivered[t[2]] \o threads[t].data)
                    => Ended(threads'[t].pc)
             /\ Ended(threads[t].pc) =>
                    /\ rcvd'[t[1]] = rcvd[t[1]]
                    /\ delivered'[t[2]] = delivered[t[2]]
                    /\ threads'[t].data = <<>>
                    /\ threads'[t].pc \in C17_After(threads[t].pc)]_vars

\* One thread of a pair has returned after an EOF and the other after a
\* failed write of bytes it had read
C17_Witness ==
    \E t \in Threads :
        LET u == <<t[2], t[1]>>
        IN  /\ peer[t[1]] = "fin"
            /\ threads[t].pc = "done"
            /\ u \in Threads
            /\ threads[u].pc = "done"
            /\ rcvd[u[1]] # <<>>
            /\ delivered[u[2]] = <<>>

\* ------------------------------------------------------------ C18
\* C18: a listener that has bound ends only in a step out of accept (the
\* accept failure), never out of the dial or the thread starts; and while the
\* process runs, a listener that has accepted a connection is eventually back
\* in accept, whether the dial succeeds or fails.
C18_ListenerLoopLiveness ==
    /\ [][\A m \in Mappings :
             (bound[m] /\ lpc[m] # "dead" /\ lpc'[m] = "dead") => lpc[m] = "accept"]_vars
    /\ \A m \in Mappings :
           (lpc[m] \in {"dial", "spawn1", "spawn2"}) ~> (lpc[m] = "accept" \/ ~Running)

\* A listener is back in accept after two connections, one whose dial failed
\* and one that it handed to a pair of pipe threads
C18_Witness ==
    \E m \in Mappings :
        /\ Running
        /\ lpc[m] = "accept"
        /\ naccepted[m] = 2
        /\ DialFailures(m) = 1
        /\ \E p \in pairs : p[1][1] = m /\ <<p[1], p[2]>> \in Threads /\ <<p[2], p[1]>> \in Threads

\* ------------------------------------------------------------ C19
\* Connections mapping m has accepted whose dial has neither returned a
\* socket nor failed
C19_Pending(m) ==
    {h \in Socks : h[1] = m /\ h[3] = "client" /\ ~DialFailed(h)
                   /\ DialedSock(h[1], h[2]) \notin Socks}

\* C19: a listener has at most one accepted connection whose dial is not
\* finished, namely its client_sock while it is inside create_connection;
\* there it cannot accept, and no step taken while it dials adds to the
\* connections it has accepted.
C19_DialsSerialized ==
    /\ [](\A m \in Mappings :
            /\ C19_Pending(m) = (IF lpc[m] = "dial" THEN {client_sock[m]} ELSE {})
            /\ lpc[m] = "dial" => ~ENABLED AcceptOk(m))
    /\ [][\A m \in Mappings : lpc[m] = "dial" => naccepted'[m] = naccepted[m]]_vars

\* A listener is dialing for its second connection
C19_Witness ==
    \E m \in Mappings :
        /\ lpc[m] = "dial"
        /\ naccepted[m] = 2
        /\ client_sock[m] = AcceptedSock(m, 2)
        /\ C19_Pending(m) = {client_sock[m]}

====
